---- MODULE Spec2Model ----
(***************************************************************************)
(* Mailroom Management Application: the store (database/schema.py,         *)
(* database/repository.py) and the API routes of backend/main.py that      *)
(* drive the package lifecycle.  Requests are served by worker threads of  *)
(* the API server; every repository function opens its own sqlite3         *)
(* connection.  The variables Packages, UnknownPackages and                *)
(* sqlite_sequence hold the committed content of the database file, the    *)
(* content every other connection reads; txn holds the uncommitted working *)
(* copy of the one connection that has an open write transaction.          *)
(***************************************************************************)
EXTENDS Integers, Sequences, FiniteSets, TLC

\* ------------------------------------------------------------------ bounds
MaxRequests == 2        \* requests the API server accepts in one run
MaxClock == 2           \* last tick of the wall clock
TicksPerSecond == 2     \* clock ticks within one second of the timestamp format

\* worker threads of the API server, serving requests concurrently
Proc == {1, 2}

\* ------------------------------------------------------------- value spaces
\* assigned_resident_id INTEGER (nullable): the SQL NULL
NULL == 0

\* Python's None (no row fetched, no value)
None == [none |-> TRUE]

Carriers == {"UPS", "USPS"}
Labels == {"J. Doe"}

\* Residents table after seeding / staff registration: rows of
\* (id, full_name, email, unit_number)
\* (full_name is a sequence of characters, shortened)
ResidentRows ==
    { [id |-> 1, full_name |-> <<"K", "i", "t">>, email |-> "kittie@wt", unit_number |-> 101],
      [id |-> 2, full_name |-> <<"R", "a", "i", "t">>, email |-> "claudette@wt", unit_number |-> 102] }

\* ids a request may carry: the existing ones and one that resolves to nothing
ResidentIdInputs == {r.id : r \in ResidentRows} \cup {3}
PackageIdInputs == 1..(1 + MaxRequests)
UnknownIdInputs == 1..(1 + MaxRequests)

VARIABLES
    Residents,          \* table Residents (committed)
    StaffLogin,         \* table StaffLogin (committed)
    Packages,           \* table Packages (committed)
    UnknownPackages,    \* table UnknownPackages (committed)
    sqlite_sequence,    \* AUTOINCREMENT counters (committed)
    txn,                \* the open write transaction: owner and working copy
    now,                \* wall clock, in ticks
    pc,                 \* position of each worker in its route handler
    request,            \* the request a worker is serving
    local,              \* local variables of the handler
    response,           \* the response of the last request
    served,             \* requests accepted so far
    notified            \* send_notification calls made for the current request

store == <<Residents, StaffLogin, Packages, UnknownPackages, sqlite_sequence>>
vars == <<Residents, StaffLogin, Packages, UnknownPackages, sqlite_sequence, txn, now,
          pc, request, local, response, served, notified>>

\* ------------------------------------------------------------ the database
\* datetime.now().strftime("%Y-%m-%d %H:%M:%S"): the clock cut to whole seconds
Strftime(t) == t \div TicksPerSecond

SetMax(S) == IF S = {} THEN 0 ELSE CHOOSE m \in S : \A x \in S : x <= m

\* content of the database file as one value
Committed ==
    [Packages |-> Packages, UnknownPackages |-> UnknownPackages,
     sqlite_sequence |-> sqlite_sequence]

NoTxn == [owner |-> 0]

\* what connection p reads: its own uncommitted writes, else the file
View(p) == IF txn.owner = p THEN txn.db ELSE Committed

\* (variant: the largest rowid ever used is issued again)
NextRowIdAgain(ids, seq) == SetMax(ids \cup {seq})

\* INTEGER PRIMARY KEY AUTOINCREMENT: one more than the largest rowid ever used
NextRowId(ids, seq) == SetMax(ids \cup {seq}) + 1

\* INSERT INTO Packages (resident_id, carrier, delivery_date, status) VALUES (?, ?, ?, 'Pending')
InsertPackage(db, resident_id, carrier, delivery_date) ==
    LET id == NextRowId({r.package_id : r \in db.Packages}, db.sqlite_sequence.Packages)
    IN [db EXCEPT !.Packages = @ \cup
            { [package_id |-> id, resident_id |-> resident_id, carrier |-> carrier,
               delivery_date |-> delivery_date, status |-> "Pending"] },
          !.sqlite_sequence.Packages = id]

\* (variant: the id read before the INSERT took effect)
LastPackageRowIdStale(db) == db.sqlite_sequence.Packages - 1

\* cursor.lastrowid after an INSERT into Packages
LastPackageRowId(db) == db.sqlite_sequence.Packages

\* INSERT INTO UnknownPackages (name_on_label, carrier, delivery_date) VALUES (?, ?, ?)
InsertUnknownPackage(db, name_on_label, carrier, delivery_date) ==
    LET id == NextRowId({r.unknown_id : r \in db.UnknownPackages},
                        db.sqlite_sequence.UnknownPackages)
    IN [db EXCEPT !.UnknownPackages = @ \cup
            { [unknown_id |-> id, name_on_label |-> name_on_label, carrier |-> carrier,
               delivery_date |-> delivery_date, assigned_resident_id |-> NULL] },
          !.sqlite_sequence.UnknownPackages = id]

LastUnknownRowId(db) == db.sqlite_sequence.UnknownPackages

\* fetchone(): the first row of the result, None when there is none
FetchOne(rows) == IF rows = {} THEN None ELSE CHOOSE r \in rows : TRUE

\* (variant: SELECT * FROM Residents, without the WHERE clause)
get_resident_any(resident_id) == FetchOne(Residents)

\* SELECT * FROM Residents WHERE id = ?
get_resident_by_id(resident_id) ==
    FetchOne({r \in Residents : r.id = resident_id})

\* SELECT * FROM Packages WHERE package_id = ?
get_package_by_id(package_id) ==
    FetchOne({r \in Packages : r.package_id = package_id})

\* (variant: ... WHERE unknown_id = ? AND assigned_resident_id IS NULL)
SelectOpenUnknown(db, unknown_id) ==
    FetchOne({r \in db.UnknownPackages :
                 r.unknown_id = unknown_id /\ r.assigned_resident_id = NULL})

\* SELECT * FROM UnknownPackages WHERE unknown_id = ?
SelectUnknown(db, unknown_id) ==
    FetchOne({r \in db.UnknownPackages : r.unknown_id = unknown_id})

\* (variant: the UPDATE has no WHERE clause)
UpdateUnknownAssignedAll(db, resident_id, unknown_id) ==
    [db EXCEPT !.UnknownPackages =
        { [r EXCEPT !.assigned_resident_id = resident_id] : r \in @ }]

\* UPDATE UnknownPackages SET assigned_resident_id = ? WHERE unknown_id = ?
UpdateUnknownAssigned(db, resident_id, unknown_id) ==
    [db EXCEPT !.UnknownPackages =
        { IF r.unknown_id = unknown_id
            THEN [r EXCEPT !.assigned_resident_id = resident_id]
            ELSE r : r \in @ }]

\* (variant: the UPDATE flips the status)
UpdatePackageStatusToggle(db, package_id) ==
    [db EXCEPT !.Packages =
        { IF r.package_id = package_id
            THEN [r EXCEPT !.status = IF @ = "Pending" THEN "PickedUp" ELSE "Pending"]
            ELSE r : r \in @ }]

\* UPDATE Packages SET status = 'PickedUp' WHERE package_id = ?
UpdatePackageStatus(db, package_id) ==
    [db EXCEPT !.Packages =
        { IF r.package_id = package_id
            THEN [r EXCEPT !.status = "PickedUp"]
            ELSE r : r \in @ }]

\* (variant: WHERE package_id = ? AND status = 'Pending')
RowCountPending(db, package_id) ==
    Cardinality({r \in db.Packages : r.package_id = package_id /\ r.status = "Pending"})

\* cursor.rowcount of that UPDATE: the rows its WHERE clause matched
RowCount(db, package_id) ==
    Cardinality({r \in db.Packages : r.package_id = package_id})

\* ------------------------------------------------------------------ queries
\* Packages p JOIN Residents r ON p.resident_id = r.id
JoinResidents(rows) ==
    { [package_id |-> p.package_id, resident_id |-> p.resident_id,
       carrier |-> p.carrier, delivery_date |-> p.delivery_date,
       status |-> p.status, full_name |-> r.full_name,
       unit_number |-> r.unit_number] :
         <<p, r>> \in {pr \in rows \X Residents : pr[1].resident_id = pr[2].id} }

\* (variant: the status filter is missing)
get_pending_packages_unfiltered == JoinResidents(Packages)

\* ... WHERE p.status = 'Pending' (the rows, before ordering)
get_pending_packages ==
    {j \in JoinResidents(Packages) : j.status = "Pending"}

\* (variant: the NULL filter is missing)
get_unknown_packages_unfiltered == UnknownPackages

\* SELECT * FROM UnknownPackages WHERE assigned_resident_id IS NULL
get_unknown_packages ==
    {u \in UnknownPackages : u.assigned_resident_id = NULL}

\* SQLite's LIKE folds the case of ASCII letters
Lower(c) ==
    CASE c = "K" -> "k" [] c = "R" -> "r" [] c = "A" -> "a"
      [] c = "I" -> "i" [] c = "T" -> "t" [] OTHER -> c

\* str LIKE pat: % matches any run of characters, _ any one character
RECURSIVE Like(_, _)
Like(str, pat) ==
    IF pat = <<>> THEN str = <<>>
    ELSE IF Head(pat) = "%"
      THEN Like(str, Tail(pat)) \/ (str # <<>> /\ Like(Tail(str), pat))
      ELSE /\ str # <<>>
           /\ (Head(pat) = "_" \/ Lower(Head(pat)) = Lower(Head(str)))
           /\ Like(Tail(str), Tail(pat))

\* (variant: the two filters, when both are given, are joined with OR)
search_history_either(name_query, unit_query) ==
    { j \in JoinResidents(Packages) :
        LET byName == \A n \in name_query :
                         n # <<>> => Like(j.full_name, <<"%">> \o n \o <<"%">>)
            byUnit == \A u \in unit_query : u # 0 => j.unit_number = u
        IN  IF name_query = {} \/ unit_query = {}
              THEN byName /\ byUnit
              ELSE byName \/ byUnit }

\* search_history(name_query, unit_query).  An Optional argument is a set:
\* {} for None, {v} for the value v.  Each filter is added only when its
\* argument is truthy (neither None nor "" / 0); the rows, before ordering
search_history(name_query, unit_query) ==
    { j \in JoinResidents(Packages) :
        /\ \A n \in name_query :
              n # <<>> => Like(j.full_name, <<"%">> \o n \o <<"%">>)
        /\ \A u \in unit_query :
              u # 0 => j.unit_number = u }

\* (variant: ORDER BY delivery_date, ascending)
OrderByDeliveryDateAsc(rows) ==
    { s \in [1..Cardinality(rows) -> rows] :
        /\ \A i, j \in DOMAIN s : i # j => s[i] # s[j]
        /\ \A i, j \in DOMAIN s : i < j => s[i].delivery_date <= s[j].delivery_date }

\* ORDER BY delivery_date DESC: the orders in which the rows may be returned
\* (SQL leaves the order of rows with equal delivery_date open)
OrderByDeliveryDateDesc(rows) ==
    { s \in [1..Cardinality(rows) -> rows] :
        /\ \A i, j \in DOMAIN s : i # j => s[i] # s[j]
        /\ \A i, j \in DOMAIN s : i < j => s[i].delivery_date >= s[j].delivery_date }

\* GET /packages/pending: the PackageList the route may return
PendingPackageList == OrderByDeliveryDateDesc(get_pending_packages)

\* GET /unknown: the UnknownPackageList the route may return; an
\* assigned_resident_id that is falsy is returned as None
UnknownPackageList ==
    { [i \in DOMAIN s |->
         [s[i] EXCEPT !.assigned_resident_id = IF @ # 0 THEN @ ELSE NULL]] :
       s \in OrderByDeliveryDateDesc(get_unknown_packages) }

\* GET /history?name=&unit=: the PackageList the route may return
HistoryPackageList(name, unit) == OrderByDeliveryDateDesc(search_history(name, unit))

\* SELECT * FROM StaffLogin WHERE staff_username = ?
get_staff_by_username(username) ==
    FetchOne({a \in StaffLogin : a.staff_username = username})

\* code point of a character (text is compared bytewise, BINARY collation)
CharCode(c) ==
    CASE c = "%" -> 37 [] c = "A" -> 65 [] c = "I" -> 73 [] c = "K" -> 75
      [] c = "R" -> 82 [] c = "T" -> 84 [] c = "_" -> 95 [] c = "a" -> 97
      [] c = "i" -> 105 [] c = "k" -> 107 [] c = "r" -> 114 [] c = "t" -> 116
      [] OTHER -> 122

\* a <= b in the order of ORDER BY full_name
RECURSIVE TextLeq(_, _)
TextLeq(a, b) ==
    IF a = <<>> THEN TRUE
    ELSE IF b = <<>> THEN FALSE
    ELSE IF Head(a) = Head(b) THEN TextLeq(Tail(a), Tail(b))
    ELSE CharCode(Head(a)) < CharCode(Head(b))

\* ORDER BY full_name: the orders in which the rows may be returned
OrderByFullName(rows) ==
    { s \in [1..Cardinality(rows) -> rows] :
        /\ \A i, j \in DOMAIN s : i # j => s[i] # s[j]
        /\ \A i, j \in DOMAIN s : i < j => TextLeq(s[i].full_name, s[j].full_name) }

\* SELECT * FROM Residents ORDER BY full_name
get_all_residents == OrderByFullName(Residents)

\* SELECT * FROM Residents WHERE full_name LIKE '%query%' ORDER BY full_name
search_residents(query) ==
    OrderByFullName({r \in Residents : Like(r.full_name, <<"%">> \o query \o <<"%">>)})

\* ------------------------------------------------------------- connections
\* sqlite3 opens a transaction implicitly before the first INSERT / UPDATE of
\* a connection; the write lock of the file admits one such connection
CanWrite(p) == txn.owner \in {0, p}

\* cursor.execute of a writing statement: db is the working copy after it
Execute(p, db) == txn' = [owner |-> p, db |-> db]

\* the file takes the content db
WriteFile(db) ==
    /\ Packages' = db.Packages
    /\ UnknownPackages' = db.UnknownPackages
    /\ sqlite_sequence' = db.sqlite_sequence

\* conn.commit(): the working copy becomes the content of the file
Commit(p) ==
    IF txn.owner = p
      THEN WriteFile(txn.db) /\ txn' = NoTxn
      ELSE UNCHANGED <<Packages, UnknownPackages, sqlite_sequence, txn>>

\* a connection dropped without commit: its transaction is rolled back
Rollback(p) ==
    /\ txn' = IF txn.owner = p THEN NoTxn ELSE txn
    /\ UNCHANGED <<Packages, UnknownPackages, sqlite_sequence>>

\* ------------------------------------------------------------------ requests
NoLocal == [resident |-> None, unknown_pkg |-> None, delivery_date |-> 0,
            package_id |-> 0, unknown_id |-> 0]

Requests ==
    [op : {"create_package"}, resident_id : ResidentIdInputs, carrier : Carriers]
    \cup [op : {"pickup_package"}, package_id : PackageIdInputs]
    \cup [op : {"log_unknown_package"}, name_on_label : Labels, carrier : Carriers]
    \cup [op : {"assign_unknown_package"}, unknown_id : UnknownIdInputs,
                                           resident_id : ResidentIdInputs]

FirstStep(op) ==
    CASE op = "create_package" -> "cp_get_resident"
      [] op = "pickup_package" -> "pickup"
      [] op = "log_unknown_package" -> "lu_now"
      [] op = "assign_unknown_package" -> "au_get_resident"

HTTPException(status_code, detail) == [status_code |-> status_code, detail |-> detail]

\* send_notification(to_email): True when the SMTP exchange went through,
\* False when it raised
send_notification(p, to_email, ok) ==
    notified' = [notified EXCEPT ![p] = Append(@, [to_email |-> to_email, result |-> ok])]

\* seed_sample_packages / seed_sample_unknown_packages, cut to one row each:
\* a Pending package of resident 1 and an unassigned unknown package
SeedPackages ==
    { [package_id |-> 1, resident_id |-> 1, carrier |-> "UPS",
       delivery_date |-> 0, status |-> "Pending"] }

SeedUnknownPackages ==
    { [unknown_id |-> 1, name_on_label |-> "J. Doe", carrier |-> "USPS",
       delivery_date |-> 0, assigned_resident_id |-> NULL] }

\* seed_staff: rows of (staff_username, staff_password)
SeedStaff ==
    { [staff_username |-> "alice", staff_password |-> "alice123"],
      [staff_username |-> "bob", staff_password |-> "bob123"] }

Init ==
    /\ Residents = ResidentRows
    /\ StaffLogin = SeedStaff
    /\ Packages = SeedPackages
    /\ UnknownPackages = SeedUnknownPackages
    /\ sqlite_sequence = [Packages |-> 1, UnknownPackages |-> 1]
    /\ txn = NoTxn
    /\ now = TicksPerSecond - 1
    /\ served = 0
    /\ pc = [p \in Proc |-> "idle"]
    /\ request = [p \in Proc |-> None]
    /\ local = [p \in Proc |-> NoLocal]
    /\ response = [p \in Proc |-> None]
    /\ notified = [p \in Proc |-> <<>>]

\* the clock advances
Tick ==
    /\ now < MaxClock
    /\ now' = now + 1
    /\ UNCHANGED <<store, txn, pc, request, local, response, served, notified>>

\* a request arrives and a worker starts its route handler
Start(p) ==
    /\ pc[p] \in {"idle", "done"}
    /\ served < MaxRequests
    /\ served' = served + 1
    /\ \E req \in Requests :
         /\ request' = [request EXCEPT ![p] = req]
         /\ pc' = [pc EXCEPT ![p] = FirstStep(req.op)]
    /\ local' = [local EXCEPT ![p] = NoLocal]
    /\ response' = [response EXCEPT ![p] = None]
    /\ notified' = [notified EXCEPT ![p] = <<>>]
    /\ UNCHANGED <<store, txn, now>>

\* ---- POST /packages (main.create_package)
\* (variant: the package is inserted before the resident is looked up)
CreatePackageInsertBeforeLookup(p) ==
    /\ pc[p] = "cp_get_resident"
    /\ txn.owner = 0
    /\ LET resident == get_resident_by_id(request[p].resident_id)
           db == InsertPackage(Committed, request[p].resident_id,
                               request[p].carrier, Strftime(now)) IN
         /\ WriteFile(db)
         /\ IF resident = None
              THEN /\ response' = [response EXCEPT ![p] =
                         HTTPException(404, "Resident not found")]
                   /\ pc' = [pc EXCEPT ![p] = "done"]
                   /\ UNCHANGED local
              ELSE /\ local' = [local EXCEPT ![p].resident = resident,
                                             ![p].delivery_date = Strftime(now),
                                             ![p].package_id = LastPackageRowId(db)]
                   /\ pc' = [pc EXCEPT ![p] = "cp_notify"]
                   /\ UNCHANGED response
    /\ UNCHANGED <<Residents, StaffLogin, txn, now, request, served, notified>>

\* resident = repository.get_resident_by_id(request.resident_id); 404 if none
CreatePackageGetResident(p) ==
    /\ pc[p] = "cp_get_resident"
    /\ LET resident == get_resident_by_id(request[p].resident_id) IN
         IF resident = None
           THEN /\ response' = [response EXCEPT ![p] = HTTPException(404, "Resident not found")]
                /\ pc' = [pc EXCEPT ![p] = "done"]
                /\ UNCHANGED local
           ELSE /\ local' = [local EXCEPT ![p].resident = resident]
                /\ pc' = [pc EXCEPT ![p] = "cp_now"]
                /\ UNCHANGED response
    /\ UNCHANGED <<store, txn, now, request, served, notified>>

\* (variant: the notification is sent before the package is written)
CreatePackageNowNotifiesFirst(p) ==
    /\ pc[p] = "cp_now"
    /\ local' = [local EXCEPT ![p].delivery_date = Strftime(now)]
    /\ \E email_sent \in BOOLEAN : send_notification(p, local[p].resident.email, email_sent)
    /\ pc' = [pc EXCEPT ![p] = "cp_insert"]
    /\ UNCHANGED <<store, txn, now, request, response, served>>

\* delivery_date = datetime.now().strftime(...)
CreatePackageNow(p) ==
    /\ pc[p] = "cp_now"
    /\ local' = [local EXCEPT ![p].delivery_date = Strftime(now)]
    /\ pc' = [pc EXCEPT ![p] = "cp_insert"]
    /\ UNCHANGED <<store, txn, now, request, response, served, notified>>

\* repository.create_package: INSERT, lastrowid, commit on its own connection
create_package(p, resident_id, carrier, delivery_date) ==
    /\ txn.owner = 0
    /\ LET db == InsertPackage(Committed, resident_id, carrier, delivery_date) IN
         /\ WriteFile(db)
         /\ local' = [local EXCEPT ![p].package_id = LastPackageRowId(db)]
    /\ UNCHANGED <<Residents, StaffLogin, txn>>

CreatePackageInsert(p) ==
    /\ pc[p] = "cp_insert"
    /\ create_package(p, request[p].resident_id, request[p].carrier,
                       local[p].delivery_date)
    /\ pc' = [pc EXCEPT ![p] = "cp_notify"]
    /\ UNCHANGED <<now, request, response, served, notified>>

\* (variant: a notification that failed turns the request into an error)
CreatePackageNotifyStrict(p) ==
    /\ pc[p] = "cp_notify"
    /\ \E email_sent \in BOOLEAN :
         /\ send_notification(p, local[p].resident.email, email_sent)
         /\ response' = [response EXCEPT ![p] =
               IF email_sent
                 THEN [status_code |-> 200, success |-> TRUE,
                       package_id |-> local[p].package_id,
                       message |-> <<"Package logged for", local[p].resident.full_name>>,
                       email_sent |-> email_sent]
                 ELSE [status_code |-> 500]]
    /\ pc' = [pc EXCEPT ![p] = "done"]
    /\ UNCHANGED <<store, txn, now, request, local, served>>

\* email_sent = send_notification(resident['email']); return the response
CreatePackageNotify(p) ==
    /\ pc[p] = "cp_notify"
    /\ \E email_sent \in BOOLEAN :
         /\ send_notification(p, local[p].resident.email, email_sent)
         /\ response' = [response EXCEPT ![p] =
               [status_code |-> 200, success |-> TRUE,
                package_id |-> local[p].package_id,
                message |-> <<"Package logged for", local[p].resident.full_name>>,
                email_sent |-> email_sent]]
    /\ pc' = [pc EXCEPT ![p] = "done"]
    /\ UNCHANGED <<store, txn, now, request, local, served>>

\* ---- POST /packages/{package_id}/pickup (main.pickup_package)
\* (variant: DELETE FROM Packages WHERE package_id = ?)
delete_package_on_pickup(package_id) ==
    /\ txn.owner = 0
    /\ WriteFile([Committed EXCEPT !.Packages = {r \in @ : r.package_id # package_id}])
    /\ UNCHANGED <<Residents, StaffLogin, txn>>

\* repository.mark_package_picked_up: UPDATE, rowcount > 0, commit
mark_package_picked_up(package_id) ==
    /\ txn.owner = 0
    /\ WriteFile(UpdatePackageStatus(Committed, package_id))
    /\ UNCHANGED <<Residents, StaffLogin, txn>>

\* (variant: return True whatever the UPDATE matched)
mark_package_picked_up_always(package_id) == TRUE

mark_package_picked_up_success(package_id) == RowCount(Committed, package_id) > 0

\* (variant: UPDATE Packages SET status = 'PickedUp', without WHERE)
pickup_package_all(p) ==
    /\ pc[p] = "pickup"
    /\ txn.owner = 0
    /\ WriteFile([Committed EXCEPT !.Packages = {[r EXCEPT !.status = "PickedUp"] : r \in @}])
    /\ response' = [response EXCEPT ![p] =
          IF mark_package_picked_up_success(request[p].package_id)
            THEN [status_code |-> 200, success |-> TRUE,
                  message |-> <<"Package", request[p].package_id, "marked as picked up">>]
            ELSE HTTPException(404, "Package not found")]
    /\ pc' = [pc EXCEPT ![p] = "done"]
    /\ UNCHANGED <<Residents, StaffLogin, txn, now, request, local, served, notified>>

pickup_package(p) ==
    /\ pc[p] = "pickup"
    /\ mark_package_picked_up(request[p].package_id)
    /\ response' = [response EXCEPT ![p] =
          IF mark_package_picked_up_success(request[p].package_id)
            THEN [status_code |-> 200, success |-> TRUE,
                  message |-> <<"Package", request[p].package_id, "marked as picked up">>]
            ELSE HTTPException(404, "Package not found")]
    /\ pc' = [pc EXCEPT ![p] = "done"]
    /\ UNCHANGED <<now, request, local, served, notified>>

\* frontend, confirm_pickup page: what the page reports once worker p has
\* answered its POST /packages/{id}/pickup; resident_email is looked up in
\* the roster by the resident_id of the selected package
ConfirmPickupReport(p) ==
    IF response[p].status_code = 200
      THEN { <<"Pickup confirmed! Notification sent to", r.email>> :
               r \in {r \in Residents :
                        \E k \in Packages : /\ k.package_id = request[p].package_id
                                             /\ k.resident_id = r.id} }
      ELSE { <<"Error processing pickup">> }

\* ---- POST /unknown (main.log_unknown_package)
LogUnknownNow(p) ==
    /\ pc[p] = "lu_now"
    /\ local' = [local EXCEPT ![p].delivery_date = Strftime(now)]
    /\ pc' = [pc EXCEPT ![p] = "lu_insert"]
    /\ UNCHANGED <<store, txn, now, request, response, served, notified>>

\* (variant: the name on the label is also entered in the Residents table)
log_unknown_package_registers(p) ==
    /\ pc[p] = "lu_insert"
    /\ txn.owner = 0
    /\ LET db == InsertUnknownPackage(Committed, request[p].name_on_label,
                                       request[p].carrier, local[p].delivery_date) IN
         /\ WriteFile(db)
         /\ local' = [local EXCEPT ![p].unknown_id = LastUnknownRowId(db)]
         /\ response' = [response EXCEPT ![p] =
               [status_code |-> 200, success |-> TRUE,
                unknown_id |-> LastUnknownRowId(db),
                message |-> <<"Unknown package logged with name:", request[p].name_on_label>>]]
    /\ Residents' = Residents \cup
          { [id |-> SetMax({r.id : r \in Residents}) + 1, full_name |-> <<"J">>,
             email |-> "", unit_number |-> 0] }
    /\ pc' = [pc EXCEPT ![p] = "done"]
    /\ UNCHANGED <<StaffLogin, txn, now, request, served, notified>>

\* repository.log_unknown_package: INSERT, lastrowid, commit; then the response
log_unknown_package(p) ==
    /\ pc[p] = "lu_insert"
    /\ txn.owner = 0
    /\ LET db == InsertUnknownPackage(Committed, request[p].name_on_label,
                                       request[p].carrier, local[p].delivery_date) IN
         /\ WriteFile(db)
         /\ local' = [local EXCEPT ![p].unknown_id = LastUnknownRowId(db)]
         /\ response' = [response EXCEPT ![p] =
               [status_code |-> 200, success |-> TRUE,
                unknown_id |-> LastUnknownRowId(db),
                message |-> <<"Unknown package logged with name:", request[p].name_on_label>>]]
    /\ pc' = [pc EXCEPT ![p] = "done"]
    /\ UNCHANGED <<Residents, StaffLogin, txn, now, request, served, notified>>

\* ---- POST /unknown/assign (main.assign_unknown_package)
\* resident = repository.get_resident_by_id(request.resident_id); 404 if none
AssignGetResident(p) ==
    /\ pc[p] = "au_get_resident"
    /\ LET resident == get_resident_by_id(request[p].resident_id) IN
         IF resident = None
           THEN /\ response' = [response EXCEPT ![p] = HTTPException(404, "Resident not found")]
                /\ pc' = [pc EXCEPT ![p] = "done"]
                /\ UNCHANGED local
           ELSE /\ local' = [local EXCEPT ![p].resident = resident]
                /\ pc' = [pc EXCEPT ![p] = "au_select"]
                /\ UNCHANGED response
    /\ UNCHANGED <<store, txn, now, request, served, notified>>

\* (variant: the function returns True also when the SELECT finds no row)
AssignSelectReturnsTrue(p) ==
    /\ pc[p] = "au_select"
    /\ LET unknown_pkg == SelectUnknown(View(p), request[p].unknown_id) IN
         IF unknown_pkg = None
           THEN /\ pc' = [pc EXCEPT ![p] = "au_notify"]
                /\ UNCHANGED local
           ELSE /\ local' = [local EXCEPT ![p].unknown_pkg = unknown_pkg]
                /\ pc' = [pc EXCEPT ![p] = "au_update"]
    /\ UNCHANGED <<store, txn, now, request, response, served, notified>>

\* repository.assign_unknown_to_resident, the SELECT: returns False when the
\* unknown package does not exist, and the route answers 404
AssignSelect(p) ==
    /\ pc[p] = "au_select"
    /\ LET unknown_pkg == SelectUnknown(View(p), request[p].unknown_id) IN
         IF unknown_pkg = None
           THEN /\ response' = [response EXCEPT ![p] =
                      HTTPException(404, "Unknown package not found")]
                /\ pc' = [pc EXCEPT ![p] = "done"]
                /\ UNCHANGED local
           ELSE /\ local' = [local EXCEPT ![p].unknown_pkg = unknown_pkg]
                /\ pc' = [pc EXCEPT ![p] = "au_update"]
                /\ UNCHANGED response
    /\ UNCHANGED <<store, txn, now, request, served, notified>>

\* (variant: the UPDATE is committed on its own, before the INSERT)
AssignUpdateCommitted(p) ==
    /\ pc[p] = "au_update"
    /\ txn.owner = 0
    /\ WriteFile(UpdateUnknownAssigned(Committed, request[p].resident_id,
                                        request[p].unknown_id))
    /\ pc' = [pc EXCEPT ![p] = "au_insert"]
    /\ UNCHANGED <<Residents, StaffLogin, txn, now, request, local, response, served, notified>>

\* ... the UPDATE of the unknown package record (opens the transaction)
AssignUpdate(p) ==
    /\ pc[p] = "au_update"
    /\ CanWrite(p)
    /\ Execute(p, UpdateUnknownAssigned(View(p), request[p].resident_id,
                                         request[p].unknown_id))
    /\ pc' = [pc EXCEPT ![p] = "au_insert"]
    /\ UNCHANGED <<store, now, request, local, response, served, notified>>

\* (variant: the new package is stamped with the time of the assignment)
AssignInsertStampedNow(p) ==
    /\ pc[p] = "au_insert"
    /\ CanWrite(p)
    /\ Execute(p, InsertPackage(View(p), request[p].resident_id,
                                 local[p].unknown_pkg.carrier, Strftime(now)))
    /\ pc' = [pc EXCEPT ![p] = "au_commit"]
    /\ UNCHANGED <<store, now, request, local, response, served, notified>>

\* ... the INSERT of the new official package
AssignInsert(p) ==
    /\ pc[p] = "au_insert"
    /\ CanWrite(p)
    /\ Execute(p, InsertPackage(View(p), request[p].resident_id,
                                 local[p].unknown_pkg.carrier,
                                 local[p].unknown_pkg.delivery_date))
    /\ pc' = [pc EXCEPT ![p] = "au_commit"]
    /\ UNCHANGED <<store, now, request, local, response, served, notified>>

\* ... conn.commit(); conn.close(); return True
AssignCommit(p) ==
    /\ pc[p] = "au_commit"
    /\ Commit(p)
    /\ pc' = [pc EXCEPT ![p] = "au_notify"]
    /\ UNCHANGED <<Residents, StaffLogin, now, request, local, response, served, notified>>

\* the statement or the process fails between the UPDATE and the commit: the
\* connection goes away uncommitted and the request ends in a server error
AssignFail(p) ==
    /\ pc[p] \in {"au_insert", "au_commit"}
    /\ Rollback(p)
    /\ response' = [response EXCEPT ![p] = [status_code |-> 500]]
    /\ pc' = [pc EXCEPT ![p] = "done"]
    /\ UNCHANGED <<Residents, StaffLogin, now, request, local, served, notified>>

\* email_sent = send_notification(resident['email']); return the response
AssignNotify(p) ==
    /\ pc[p] = "au_notify"
    /\ \E email_sent \in BOOLEAN :
         /\ send_notification(p, local[p].resident.email, email_sent)
         /\ response' = [response EXCEPT ![p] =
               [status_code |-> 200, success |-> TRUE,
                message |-> <<"Package assigned to", local[p].resident.full_name>>,
                email_sent |-> email_sent]]
    /\ pc' = [pc EXCEPT ![p] = "done"]
    /\ UNCHANGED <<store, txn, now, request, local, served>>

\* ------------------------------------------------------------ read routes
\* inputs of the read routes
Usernames == {"alice", "bob", "carol"}
Passwords == {"alice123"}
NameQueries == {<<"I">>, <<"a", "I">>, <<"_">>}
UnitQueries == {0 - 1, 0, 101}

ReadRequests ==
    [op : {"login"}, username : Usernames, password : Passwords]
    \cup [op : {"get_residents", "get_pending_packages", "get_unknown_packages"}]
    \cup [op : {"search_residents"}, query : NameQueries]
    \cup [op : {"search_history"},
          name : {{}} \cup {{n} : n \in NameQueries},
          unit : {{}} \cup {{u} : u \in UnitQueries}]

\* a roster with names that differ in case only and units 0 and -1
OddResidentRows ==
    { [id |-> 1, full_name |-> <<"A", "i">>, email |-> "ai@wt", unit_number |-> 0],
      [id |-> 2, full_name |-> <<"a", "i">>, email |-> "ai2@wt", unit_number |-> 0 - 1],
      [id |-> 3, full_name |-> <<"T", "i", "a">>, email |-> "tia@wt", unit_number |-> 101] }

\* one package for each resident of the roster, some of them picked up
SamplePackages(roster) ==
    { [package_id |-> r.id, resident_id |-> r.id,
       carrier |-> IF r.id = 2 THEN "USPS" ELSE "UPS",
       delivery_date |-> r.id % 2,
       status |-> IF r.id = 1 THEN "PickedUp" ELSE "Pending"] : r \in roster }

\* an initialised database with a roster and packages on file
InitRead ==
    /\ Residents \in {ResidentRows, OddResidentRows}
    /\ StaffLogin = SeedStaff
    /\ Packages \in {SeedPackages, SamplePackages(Residents)}
    /\ UnknownPackages =
         SeedUnknownPackages \cup
           { [unknown_id |-> 2, name_on_label |-> "J. Doe", carrier |-> "UPS",
              delivery_date |-> 1, assigned_resident_id |-> 1] }
    /\ sqlite_sequence =
         [Packages |-> SetMax({k.package_id : k \in Packages}),
          UnknownPackages |-> SetMax({u.unknown_id : u \in UnknownPackages})]
    /\ txn = NoTxn
    /\ now = TicksPerSecond - 1
    /\ served = 0
    /\ pc = [p \in Proc |-> "idle"]
    /\ request = [p \in Proc |-> None]
    /\ local = [p \in Proc |-> NoLocal]
    /\ response = [p \in Proc |-> None]
    /\ notified = [p \in Proc |-> <<>>]

\* a read request arrives and a worker starts its route handler
ReadStart(p) ==
    /\ pc[p] \in {"idle", "done"}
    /\ served < MaxRequests
    /\ served' = served + 1
    /\ \E req \in ReadRequests :
         /\ request' = [request EXCEPT ![p] = req]
         /\ pc' = [pc EXCEPT ![p] = req.op]
    /\ response' = [response EXCEPT ![p] = None]
    /\ UNCHANGED <<store, txn, now, local, notified>>

\* the handler of a read route returns resp
Return(p, resp) ==
    /\ response' = [response EXCEPT ![p] = resp]
    /\ pc' = [pc EXCEPT ![p] = "done"]
    /\ UNCHANGED <<store, txn, now, request, local, served, notified>>

\* LoginResponse(success, message, username); username is Optional
LoginResponse(success, message, username) ==
    [success |-> success, message |-> message, username |-> username]

\* (variant: the stored password is not compared)
login_any_password(p) ==
    /\ pc[p] = "login"
    /\ LET staff == get_staff_by_username(request[p].username) IN
         Return(p, IF staff = None
                     THEN LoginResponse(FALSE, "Invalid username", {})
                   ELSE LoginResponse(TRUE, "Login successful", {request[p].username}))

\* ---- POST /login (main.login)
login(p) ==
    /\ pc[p] = "login"
    /\ LET staff == get_staff_by_username(request[p].username) IN
         Return(p, IF staff = None
                     THEN LoginResponse(FALSE, "Invalid username", {})
                   ELSE IF staff.staff_password # request[p].password
                     THEN LoginResponse(FALSE, "Invalid password", {})
                   ELSE LoginResponse(TRUE, "Login successful", {request[p].username}))

\* ---- GET /residents (main.get_residents)
get_residents(p) ==
    /\ pc[p] = "get_residents"
    /\ \E residents \in get_all_residents : Return(p, [residents |-> residents])

\* ---- GET /residents/search (main.search_residents)
SearchResidentsRoute(p) ==
    /\ pc[p] = "search_residents"
    /\ \E residents \in search_residents(request[p].query) :
         Return(p, [residents |-> residents])

\* ---- GET /packages/pending (main.get_pending_packages)
GetPendingPackagesRoute(p) ==
    /\ pc[p] = "get_pending_packages"
    /\ \E packages \in PendingPackageList : Return(p, [packages |-> packages])

\* ---- GET /unknown (main.get_unknown_packages)
GetUnknownPackagesRoute(p) ==
    /\ pc[p] = "get_unknown_packages"
    /\ \E packages \in UnknownPackageList : Return(p, [unknown_packages |-> packages])

\* ---- GET /history (main.search_history)
SearchHistoryRoute(p) ==
    /\ pc[p] = "search_history"
    /\ \E packages \in HistoryPackageList(request[p].name, request[p].unit) :
         Return(p, [packages |-> packages])

NextRead ==
    \/ \E p \in Proc : ReadStart(p)
    \/ \E p \in Proc : login(p)
    \/ \E p \in Proc : get_residents(p)
    \/ \E p \in Proc : SearchResidentsRoute(p)
    \/ \E p \in Proc : GetPendingPackagesRoute(p)
    \/ \E p \in Proc : GetUnknownPackagesRoute(p)
    \/ \E p \in Proc : SearchHistoryRoute(p)

\* the read routes, served from a database on file
SpecRead == InitRead /\ [][NextRead]_vars

\* ------------------------------------------------------- email_service
\* send_notification(to_email), step by step.  Every call on the SMTP
\* connection either goes through or raises (SMTPException, OSError).
\* local[p].failed is the call that raised, local[p].accepted tells whether
\* the server has taken the message.
Recipients == {r.email : r \in ResidentRows}

SendNotificationStart(p) ==
    /\ pc[p] \in {"idle", "done"}
    /\ served < MaxRequests
    /\ served' = served + 1
    /\ \E to_email \in Recipients :
         request' = [request EXCEPT ![p] = [op |-> "send_notification", to_email |-> to_email]]
    /\ local' = [local EXCEPT ![p] = [failed |-> "none", accepted |-> FALSE]]
    /\ response' = [response EXCEPT ![p] = None]
    /\ notified' = [notified EXCEPT ![p] = <<>>]
    /\ pc' = [pc EXCEPT ![p] = "SMTP"]
    /\ UNCHANGED <<store, txn, now>>

\* except Exception as e: ... return False
ExceptReturnFalse(p, call) ==
    /\ local' = [local EXCEPT ![p].failed = call]
    /\ response' = [response EXCEPT ![p] = [returned |-> FALSE]]
    /\ notified' = [notified EXCEPT ![p] =
          Append(@, [to_email |-> request[p].to_email, result |-> FALSE])]
    /\ pc' = [pc EXCEPT ![p] = "done"]

\* (variant: except smtplib.SMTPException, which a failed connect, an
\* OSError, is not: the exception leaves the function)
SmtpCallSMTPExceptionOnly(p, call, next) ==
    /\ pc[p] = call
    /\ \/ /\ pc' = [pc EXCEPT ![p] = next]
          /\ local' = [local EXCEPT ![p].accepted = @ \/ call = "send_message"]
          /\ UNCHANGED <<response, notified>>
       \/ IF call = "SMTP"
            THEN /\ local' = [local EXCEPT ![p].failed = call]
                 /\ response' = [response EXCEPT ![p] = [raised |-> TRUE]]
                 /\ pc' = [pc EXCEPT ![p] = "done"]
                 /\ UNCHANGED notified
            ELSE ExceptReturnFalse(p, call)
    /\ UNCHANGED <<store, txn, now, request, served>>

\* one call inside the try block: it goes through, and control moves on to
\* next, or it raises, and the except clause returns False
SmtpCall(p, call, next) ==
    /\ pc[p] = call
    /\ \/ /\ pc' = [pc EXCEPT ![p] = next]
          /\ local' = [local EXCEPT ![p].accepted = @ \/ call = "send_message"]
          /\ UNCHANGED <<response, notified>>
       \/ ExceptReturnFalse(p, call)
    /\ UNCHANGED <<store, txn, now, request, served>>

\* with smtplib.SMTP(SMTP_SERVER, SMTP_PORT) as server:
SMTP(p) == SmtpCall(p, "SMTP", "starttls")
\* server.starttls()
starttls(p) == SmtpCall(p, "starttls", "server_login")
\* server.login(SENDER_EMAIL, PASSWORD)
server_login(p) == SmtpCall(p, "server_login", "send_message")
\* server.send_message(message)
send_message(p) == SmtpCall(p, "send_message", "SMTP_exit")
\* the end of the with block: QUIT
SMTP_exit(p) == SmtpCall(p, "SMTP_exit", "return_true")

\* print("[OK] ..."); return True
SendNotificationReturnTrue(p) ==
    /\ pc[p] = "return_true"
    /\ response' = [response EXCEPT ![p] = [returned |-> TRUE]]
    /\ notified' = [notified EXCEPT ![p] =
          Append(@, [to_email |-> request[p].to_email, result |-> TRUE])]
    /\ pc' = [pc EXCEPT ![p] = "done"]
    /\ UNCHANGED <<store, txn, now, request, local, served>>

NextMail ==
    \/ \E p \in Proc : SendNotificationStart(p)
    \/ \E p \in Proc : SMTP(p)
    \/ \E p \in Proc : starttls(p)
    \/ \E p \in Proc : server_login(p)
    \/ \E p \in Proc : send_message(p)
    \/ \E p \in Proc : SMTP_exit(p)
    \/ \E p \in Proc : SendNotificationReturnTrue(p)

\* calls of send_notification, by the route handlers of two workers
SpecMail == Init /\ [][NextMail]_vars

\* ------------------------------------------------------------ db_setup
\* initialize_database(fresh_start), run as a script by one process at a
\* time: remove the file, create_tables, then the four seed functions.
SetupSteps == {"remove", "create_tables", "seed_residents", "seed_staff",
               "seed_sample_packages", "seed_sample_unknown_packages"}

SetupStart(p, fresh_starts) ==
    /\ pc[p] \in {"idle", "done"}
    /\ \A q \in Proc : pc[q] \notin SetupSteps
    /\ served < MaxRequests
    /\ served' = served + 1
    /\ \E fresh_start \in fresh_starts :
         /\ request' = [request EXCEPT ![p] =
               [op |-> "initialize_database", fresh_start |-> fresh_start]]
         /\ pc' = [pc EXCEPT ![p] = IF fresh_start THEN "remove" ELSE "create_tables"]
    /\ local' = [local EXCEPT ![p] = NoLocal]
    /\ response' = [response EXCEPT ![p] = None]
    /\ notified' = [notified EXCEPT ![p] = <<>>]
    /\ UNCHANGED <<store, txn, now>>

\* one step of the script: the worker moves on from step a to step b
SetupStep(p, a, b) ==
    /\ pc[p] = a
    /\ pc' = [pc EXCEPT ![p] = b]
    /\ UNCHANGED <<now, request, local, response, served, notified>>

\* os.remove(db_path): the next connection finds an empty file
RemoveDatabase(p) ==
    /\ SetupStep(p, "remove", "create_tables")
    /\ txn.owner = 0
    /\ Residents' = {}
    /\ StaffLogin' = {}
    /\ WriteFile([Packages |-> {}, UnknownPackages |-> {},
                  sqlite_sequence |-> [Packages |-> 0, UnknownPackages |-> 0]])
    /\ UNCHANGED txn

\* CREATE TABLE IF NOT EXISTS, four times: an existing table keeps its rows,
\* a new one has none
create_tables(p) ==
    /\ SetupStep(p, "create_tables", "seed_residents")
    /\ UNCHANGED <<store, txn>>

\* seed_residents: skipped when SELECT COUNT(*) FROM Residents is above 0
seed_residents(p) ==
    /\ SetupStep(p, "seed_residents", "seed_staff")
    /\ IF Residents # {}
         THEN UNCHANGED Residents
         ELSE txn.owner = 0 /\ Residents' = ResidentRows
    /\ UNCHANGED <<StaffLogin, Packages, UnknownPackages, sqlite_sequence, txn>>

\* seed_staff: skipped when StaffLogin has rows
seed_staff(p) ==
    /\ SetupStep(p, "seed_staff", "seed_sample_packages")
    /\ IF StaffLogin # {}
         THEN UNCHANGED StaffLogin
         ELSE txn.owner = 0 /\ StaffLogin' = SeedStaff
    /\ UNCHANGED <<Residents, Packages, UnknownPackages, sqlite_sequence, txn>>

\* (variant: the sample packages are inserted without the COUNT(*) check)
seed_sample_packages_unchecked(p) ==
    /\ SetupStep(p, "seed_sample_packages", "seed_sample_unknown_packages")
    /\ txn.owner = 0
    /\ WriteFile(InsertPackage(Committed, 1, "UPS", Strftime(now)))
    /\ UNCHANGED <<Residents, StaffLogin, txn>>

\* seed_sample_packages: skipped when Packages has rows; else the sample
\* rows (cut to the first: resident_id 1, Pending, today) are inserted
seed_sample_packages(p) ==
    /\ SetupStep(p, "seed_sample_packages", "seed_sample_unknown_packages")
    /\ IF Packages # {}
         THEN UNCHANGED <<Packages, UnknownPackages, sqlite_sequence>>
         ELSE /\ txn.owner = 0
              /\ WriteFile(InsertPackage(Committed, 1, "UPS", Strftime(now)))
    /\ UNCHANGED <<Residents, StaffLogin, txn>>

\* seed_sample_unknown_packages: skipped when UnknownPackages has rows
seed_sample_unknown_packages(p) ==
    /\ SetupStep(p, "seed_sample_unknown_packages", "done")
    /\ IF UnknownPackages # {}
         THEN UNCHANGED <<Packages, UnknownPackages, sqlite_sequence>>
         ELSE /\ txn.owner = 0
              /\ WriteFile(InsertUnknownPackage(Committed, "J. Doe", "USPS", Strftime(now)))
    /\ UNCHANGED <<Residents, StaffLogin, txn>>

\* seed_all, after create_tables
seed_all ==
    \/ \E p \in Proc : seed_residents(p)
    \/ \E p \in Proc : seed_staff(p)
    \/ \E p \in Proc : seed_sample_packages(p)
    \/ \E p \in Proc : seed_sample_unknown_packages(p)

\* a roster entered by hand, with ids of its own
OtherResidentRows ==
    { [id |-> 7, full_name |-> <<"T", "i", "a">>, email |-> "tia@wt", unit_number |-> 301] }

\* a database file whose four tables exist, with any of them still empty
InitSetup ==
    /\ Residents \in {{}, ResidentRows, OtherResidentRows}
    /\ StaffLogin \in {{}, SeedStaff}
    /\ Packages \in {{}} \cup (IF Residents = {} THEN {} ELSE {SamplePackages(Residents)})
    /\ UnknownPackages \in {{}, SeedUnknownPackages}
    /\ sqlite_sequence =
         [Packages |-> SetMax({k.package_id : k \in Packages}),
          UnknownPackages |-> SetMax({u.unknown_id : u \in UnknownPackages})]
    /\ txn = NoTxn
    /\ now \in (TicksPerSecond - 1)..MaxClock
    /\ served = 0
    /\ pc = [p \in Proc |-> "idle"]
    /\ request = [p \in Proc |-> None]
    /\ local = [p \in Proc |-> NoLocal]
    /\ response = [p \in Proc |-> None]
    /\ notified = [p \in Proc |-> <<>>]

NextSetup ==
    \/ \E p \in Proc : SetupStart(p, BOOLEAN)
    \/ \E p \in Proc : RemoveDatabase(p)
    \/ \E p \in Proc : create_tables(p)
    \/ seed_all

\* the setup script, run on a database file in any state
SpecSetup == InitSetup /\ [][NextSetup]_vars

Next ==
    \/ Tick
    \/ \E p \in Proc : Start(p)
    \/ \E p \in Proc : CreatePackageGetResident(p)
    \/ \E p \in Proc : CreatePackageNow(p)
    \/ \E p \in Proc : CreatePackageInsert(p)
    \/ \E p \in Proc : CreatePackageNotify(p)
    \/ \E p \in Proc : pickup_package(p)
    \/ \E p \in Proc : LogUnknownNow(p)
    \/ \E p \in Proc : log_unknown_package(p)
    \/ \E p \in Proc : AssignGetResident(p)
    \/ \E p \in Proc : AssignSelect(p)
    \/ \E p \in Proc : AssignUpdate(p)
    \/ \E p \in Proc : AssignInsert(p)
    \/ \E p \in Proc : AssignCommit(p)
    \/ \E p \in Proc : AssignFail(p)
    \/ \E p \in Proc : AssignNotify(p)

Spec == Init /\ [][Next]_vars

\* every route of the API, served by the same workers
NextApi == Next \/ NextRead

SpecApi == Init /\ [][NextApi]_vars

\* the setup script run again, without fresh start, next to the API server
NextRerun ==
    \/ Next
    \/ \E p \in Proc : SetupStart(p, {FALSE})
    \/ \E p \in Proc : create_tables(p)
    \/ seed_all

SpecRerun == Init /\ [][NextRerun]_vars

\* =================================================================== claims
\* worker p takes a step of its handler from position a to position b
StepOf(p, a, b) == pc[p] = a /\ pc'[p] = b

\* the row of table rows with that id (a set of at most one row)
PackageRow(rows, id) == {r \in rows : r.package_id = id}
UnknownRow(rows, id) == {r \in rows : r.unknown_id = id}

\* ---- C1
\* some Package carries the resident, carrier and delivery timestamp of the
\* resolved unknown package u
HasCorrespondingPackage(u) ==
    \E k \in Packages :
        /\ k.resident_id = u.assigned_resident_id
        /\ k.carrier = u.carrier
        /\ k.delivery_date = u.delivery_date

ResolvedHasPackage ==
    \A u \in UnknownPackages :
        u.assigned_resident_id # NULL => HasCorrespondingPackage(u)

\* a step of an assignment either leaves both tables as they are, or sets
\* the assigned resident and adds the package in that same step
AssignWritesTogether ==
    \A p \in Proc :
        (pc[p] \in {"au_get_resident", "au_select", "au_update", "au_insert", "au_commit"}
           /\ pc'[p] # pc[p])
        => \/ UNCHANGED <<Packages, UnknownPackages>>
           \/ /\ \E u \in UnknownPackages' :
                    /\ u.unknown_id = request[p].unknown_id
                    /\ u.assigned_resident_id = request[p].resident_id
               /\ Cardinality(Packages' \ Packages) = 1
               /\ \A k \in Packages' \ Packages : k.resident_id = request[p].resident_id

\* C1: in every committed state each UnknownPackage with a non-null
\* assigned_resident_id has a Package with that resident id and the unknown
\* record's carrier and delivery timestamp; the UPDATE and the INSERT of
\* assign_unknown_to_resident become visible together or not at all, also
\* when the operation fails between the two writes.
C1_AssignAtomic ==
    [][ResolvedHasPackage /\ ResolvedHasPackage' /\ AssignWritesTogether]_vars

\* an assignment failed between its two writes while another one is resolved
C1_Witness ==
    /\ \E u \in UnknownPackages : u.assigned_resident_id # NULL
    /\ \E p \in Proc :
         /\ pc[p] = "done"
         /\ request[p].op = "assign_unknown_package"
         /\ response[p].status_code = 500

\* ---- C2
AssignCommitEffect(p) ==
    LET u == request[p].unknown_id
        r == request[p].resident_id
        added == Packages' \ Packages
    IN /\ \A x \in UnknownRow(UnknownPackages, u) :
            x.assigned_resident_id = NULL =>
              /\ UnknownRow(UnknownPackages', u) = {[x EXCEPT !.assigned_resident_id = r]}
              /\ Packages \subseteq Packages'
              /\ Cardinality(added) = 1
              /\ \A k \in added :
                    /\ k.resident_id = r
                    /\ k.carrier = x.carrier
                    /\ k.delivery_date = x.delivery_date
                    /\ k.status = "Pending"
                    /\ k.package_id \notin {o.package_id : o \in Packages}
                    /\ k.package_id \in {j.package_id : j \in get_pending_packages'}
              /\ u \notin {o.unknown_id : o \in get_unknown_packages'}

\* C2: for an open unknown package u and an existing resident r, the commit
\* of a successful AssignUnknownToResident(u, r) leaves u assigned to r, adds
\* exactly one new Package with resident r, u's carrier, u's original delivery
\* timestamp and status Pending; u is then absent from ListOpenUnknowns() and
\* the new Package present in GetPendingPackages().
C2_AssignEffect ==
    [][\A p \in Proc : StepOf(p, "au_commit", "au_notify") => AssignCommitEffect(p)]_vars

\* an assignment has reported success after the clock moved past the
\* unknown package's delivery second
C2_Witness ==
    \E p \in Proc :
        /\ pc[p] = "done"
        /\ request[p].op = "assign_unknown_package"
        /\ response[p].status_code = 200
        /\ Strftime(now) > 0
        /\ \E u \in UnknownPackages : u.assigned_resident_id = request[p].resident_id

\* ---- C3
\* C3: an UnknownPackage's assigned_resident_id is set at most once: once
\* non-null it never changes, whatever operations follow.
C3_AssignedSetOnce ==
    [][\A u \in UnknownPackages :
          u.assigned_resident_id # NULL =>
            \E v \in UnknownPackages' :
                /\ v.unknown_id = u.unknown_id
                /\ v.assigned_resident_id = u.assigned_resident_id]_vars

\* ---- C4
AssignNotFound(p) ==
    /\ (pc[p] = "au_get_resident" /\ pc'[p] # pc[p]
          /\ request[p].resident_id \notin {r.id : r \in Residents})
         => /\ pc'[p] = "done"
            /\ response'[p] = HTTPException(404, "Resident not found")
    /\ (pc[p] = "au_select" /\ pc'[p] # pc[p]
          /\ request[p].unknown_id \notin {u.unknown_id : u \in UnknownPackages})
         => /\ pc'[p] = "done"
            /\ response'[p] = HTTPException(404, "Unknown package not found")
    /\ (pc[p] \in {"au_get_resident", "au_select", "au_update", "au_insert",
                    "au_commit", "au_notify"}
          /\ pc'[p] = "done" /\ response'[p].status_code = 404)
         => /\ pc[p] \in {"au_get_resident", "au_select"}
            /\ UNCHANGED <<store, txn>>
            /\ txn.owner # p
            /\ notified'[p] = <<>>

\* C4: AssignUnknownToResident fails with NotFound whenever the resident id or
\* the unknown id does not resolve to an existing record; such a request
\* modifies no UnknownPackage, creates no Package and sends no notification.
C4_AssignNotFound == [][\A p \in Proc : AssignNotFound(p)]_vars

\* one assignment ended with resident not found, one with unknown not found
C4_Witness ==
    \E p, q \in Proc :
        /\ pc[p] = "done" /\ pc[q] = "done"
        /\ response[p] = HTTPException(404, "Resident not found")
        /\ request[p].op = "assign_unknown_package"
        /\ response[q] = HTTPException(404, "Unknown package not found")

\* ---- C5
\* C5: for a resident id that is not the id of an existing Resident,
\* LogPackage fails with NotFound, creates no Package and leaves the whole
\* store unchanged.
C5_LogPackageNotFound ==
    [][\A p \in Proc :
          (pc[p] = "cp_get_resident" /\ pc'[p] # pc[p]
            /\ request[p].resident_id \notin {r.id : r \in Residents})
          => /\ pc'[p] = "done"
             /\ response'[p] = HTTPException(404, "Resident not found")
             /\ UNCHANGED <<store, txn>>
             /\ txn.owner # p]_vars

C5_Witness ==
    \E p \in Proc :
        /\ pc[p] = "done"
        /\ request[p].op = "create_package"
        /\ request[p].resident_id \notin {r.id : r \in Residents}
        /\ response[p].status_code = 404

\* ---- C6
LogPackageEffect(p) ==
    LET r == request[p].resident_id
        c == request[p].carrier
    IN /\ StepOf(p, "cp_now", "cp_insert")
            => local'[p].delivery_date = Strftime(now)
       /\ StepOf(p, "cp_insert", "cp_notify")
            => /\ Packages \subseteq Packages'
               /\ Packages' \ Packages =
                     { [package_id |-> local'[p].package_id, resident_id |-> r,
                        carrier |-> c, delivery_date |-> local[p].delivery_date,
                        status |-> "Pending"] }
               /\ local'[p].package_id \notin {o.package_id : o \in Packages}
               /\ local[p].delivery_date <= Strftime(now)
               /\ UNCHANGED <<Residents, UnknownPackages>>
       /\ StepOf(p, "cp_notify", "done")
            => /\ response'[p].status_code = 200
               /\ response'[p].success
               /\ response'[p].package_id = local[p].package_id
               /\ \E k \in Packages :
                     /\ k.package_id = response'[p].package_id
                     /\ k.resident_id = r /\ k.carrier = c
                     /\ k.delivery_date = local[p].delivery_date
               /\ \E x \in Residents :
                     /\ x.id = r
                     /\ response'[p].message = <<"Package logged for", x.full_name>>

\* C6: for an existing resident r and a carrier c, LogPackage(r, c) adds
\* exactly one Package with resident r, carrier c, status Pending and the
\* delivery timestamp read from the clock at the call (not later than the
\* clock at the insert), and returns that package's id with the resident's
\* full name.
C6_LogPackageEffect == [][\A p \in Proc : LogPackageEffect(p)]_vars

\* a package was logged after the clock had moved on since the timestamp was
\* taken, and the request has answered
C6_Witness ==
    \E p \in Proc :
        /\ pc[p] = "done"
        /\ request[p].op = "create_package"
        /\ response[p].status_code = 200
        /\ local[p].delivery_date < Strftime(now)
        /\ \E k \in Packages : k.package_id = response[p].package_id

\* ---- C7
\* what the reads return for package id once it is picked up
ReadsPickedUp(id) ==
    /\ get_package_by_id(id) # None
    /\ get_package_by_id(id).status = "PickedUp"
    /\ id \notin {j.package_id : j \in get_pending_packages}
    /\ \E j \in search_history({}, {}) : j.package_id = id
    /\ \A j \in search_history({}, {}) : j.package_id = id => j.status = "PickedUp"

MarkPickedUpEffect(p) ==
    LET id == request[p].package_id IN
    StepOf(p, "pickup", "done") =>
        IF PackageRow(Packages, id) # {}
          THEN /\ response'[p].status_code = 200
               /\ response'[p].success
               /\ Packages' = (Packages \ PackageRow(Packages, id))
                                \cup {[k EXCEPT !.status = "PickedUp"] :
                                         k \in PackageRow(Packages, id)}
               /\ ReadsPickedUp(id)'
          ELSE /\ response'[p] = HTTPException(404, "Package not found")
               /\ UNCHANGED store

\* a pickup that has reported success is reflected by every read
PickedUpObservable ==
    \A p \in Proc :
        (pc[p] = "done" /\ request[p].op = "pickup_package"
           /\ response[p].status_code = 200)
        => ReadsPickedUp(request[p].package_id)

\* C7: MarkPickedUp(id) for an existing package id sets that package's status
\* to PickedUp and reports success, and every subsequent read
\* (get_package_by_id, GetPendingPackages, SearchHistory) reflects it; for an
\* id that matches no package it fails with NotFound and no row is modified.
C7_MarkPickedUp ==
    [][(\A p \in Proc : MarkPickedUpEffect(p)) /\ PickedUpObservable']_vars

\* one pickup succeeded, another found no package
C7_Witness ==
    \E p, q \in Proc :
        /\ pc[p] = "done" /\ pc[q] = "done"
        /\ request[p].op = "pickup_package" /\ response[p].status_code = 200
        /\ request[q].op = "pickup_package" /\ response[q].status_code = 404

\* ---- C8
\* C8: a Package's status moves monotonically Pending -> PickedUp: a package
\* that is PickedUp is PickedUp in every later state.
C8_StatusMonotonic ==
    [][/\ \A k \in Packages' : k.status \in {"Pending", "PickedUp"}
       /\ \A k \in Packages :
            k.status = "PickedUp" =>
              \E n \in Packages' :
                  n.package_id = k.package_id /\ n.status = "PickedUp"]_vars

\* a picked-up package, after a second request on the same package ended
C8_Witness ==
    /\ \E k \in Packages : k.status = "PickedUp"
    /\ \A p \in Proc : pc[p] = "done" /\ request[p].op = "pickup_package"
    /\ request[1].package_id = request[2].package_id

\* ---- C9
\* C9: MarkPickedUp on an already-PickedUp package (a second sequential or
\* concurrent call) is not guarded: it reports success and leaves the store
\* as the first call left it.
C9_SecondPickup ==
    [][\A p \in Proc :
          (StepOf(p, "pickup", "done")
            /\ \E k \in Packages :
                 k.package_id = request[p].package_id /\ k.status = "PickedUp")
          => /\ response'[p].status_code = 200
             /\ response'[p].success
             /\ UNCHANGED store]_vars

\* two pickups of the same package have both reported success
C9_Witness ==
    /\ \A p \in Proc :
         /\ pc[p] = "done"
         /\ request[p].op = "pickup_package"
         /\ response[p].status_code = 200
    /\ request[1].package_id = request[2].package_id

\* ---- C10
NotifyEffect(p) ==
    (pc[p] \in {"cp_notify", "au_notify"} /\ pc'[p] # pc[p])
    => /\ pc'[p] = "done"
       /\ response'[p].status_code = 200
       /\ response'[p].success
       /\ Len(notified'[p]) = 1
       /\ notified'[p][1].to_email = local[p].resident.email
       /\ response'[p].email_sent = notified'[p][1].result
       /\ UNCHANGED <<store, txn>>
       /\ txn.owner # p
       /\ pc[p] = "cp_notify" =>
             \E k \in Packages' : k.package_id = local[p].package_id

\* C10: a notification failure never aborts or reverses the triggering
\* write: for both outcomes of send_notification LogPackage and
\* AssignUnknownToResident report success, their writes stay persisted and
\* the response's email_sent flag equals the notifier's result.
C10_NotificationNonFatal == [][\A p \in Proc : NotifyEffect(p)]_vars

\* a logged package and an assignment whose notifications both failed
C10_Witness ==
    \E p, q \in Proc :
        /\ pc[p] = "done" /\ pc[q] = "done"
        /\ request[p].op = "create_package"
        /\ request[q].op = "assign_unknown_package"
        /\ response[p].status_code = 200 /\ ~response[p].email_sent
        /\ response[q].status_code = 200 /\ ~response[q].email_sent
        /\ \E k \in Packages : k.package_id = response[p].package_id
        /\ \E u \in UnknownPackages : u.assigned_resident_id # NULL

\* ---- C11
\* the resident a package row refers to (a set of at most one row)
ResidentOf(k) == {r \in Residents : r.id = k.resident_id}

\* list is in descending order of delivery timestamp
DescendingByDate(list) ==
    \A i, j \in DOMAIN list : i < j => list[i].delivery_date >= list[j].delivery_date

\* list holds each package of the set pkgs once, joined with its resident's
\* name and unit, and nothing else
ListsExactly(list, pkgs) ==
    /\ Len(list) = Cardinality(pkgs)
    /\ \A k \in pkgs :
         \E i \in DOMAIN list :
            /\ list[i].package_id = k.package_id
            /\ list[i].resident_id = k.resident_id
            /\ list[i].carrier = k.carrier
            /\ list[i].delivery_date = k.delivery_date
            /\ list[i].status = k.status
            /\ \E r \in ResidentOf(k) :
                  list[i].full_name = r.full_name /\ list[i].unit_number = r.unit_number

\* C11: after any sequence of operations GetPendingPackages() returns exactly
\* the Packages whose status is Pending, each once, joined with its resident's
\* name and unit, delivery timestamp descending; so a package logged by
\* LogPackage is listed until MarkPickedUp is applied to it and not afterwards.
C11_PendingListExact ==
    /\ PendingPackageList # {}
    /\ \A list \in PendingPackageList :
         /\ ListsExactly(list, {k \in Packages : k.status = "Pending"})
         /\ DescendingByDate(list)

\* a package logged in a later second than the seeded one was picked up
\* while the seeded one is still pending
C11_Witness ==
    \E k, m \in Packages :
        /\ k.status = "PickedUp" /\ k.package_id > 1
        /\ m.status = "Pending"
        /\ m.delivery_date < k.delivery_date

\* ---- C12
\* C12: after any sequence of operations ListOpenUnknowns() returns exactly
\* the UnknownPackage records whose assigned_resident_id is null (every open
\* record, no resolved one), ordered by delivery timestamp descending.
C12_OpenUnknownListExact ==
    /\ UnknownPackageList # {}
    /\ \A list \in UnknownPackageList :
         /\ Len(list) = Cardinality({u \in UnknownPackages : u.assigned_resident_id = NULL})
         /\ \A u \in UnknownPackages :
              u.assigned_resident_id = NULL <=> \E i \in DOMAIN list : list[i] = u
         /\ \A i \in DOMAIN list : list[i].assigned_resident_id = NULL
         /\ DescendingByDate(list)

\* a resolved unknown package next to an open one logged in a later second
C12_Witness ==
    \E u, v \in UnknownPackages :
        /\ u.assigned_resident_id # NULL
        /\ v.assigned_resident_id = NULL
        /\ u.delivery_date < v.delivery_date

\* ---- C13
LogUnknownEffect(p) ==
    /\ StepOf(p, "lu_now", "lu_insert")
         => local'[p].delivery_date = Strftime(now)
    /\ (pc[p] \in {"lu_now", "lu_insert"} /\ pc'[p] = "done")
         => /\ pc[p] = "lu_insert"
            /\ response'[p].status_code = 200
            /\ response'[p].success
            /\ response'[p].unknown_id \notin {u.unknown_id : u \in UnknownPackages}
            /\ UnknownPackages \subseteq UnknownPackages'
            /\ UnknownPackages' \ UnknownPackages =
                  { [unknown_id |-> response'[p].unknown_id,
                     name_on_label |-> request[p].name_on_label,
                     carrier |-> request[p].carrier,
                     delivery_date |-> local[p].delivery_date,
                     assigned_resident_id |-> NULL] }
            /\ \A list \in UnknownPackageList' :
                  \E i \in DOMAIN list : list[i].unknown_id = response'[p].unknown_id
            /\ UNCHANGED <<Residents, Packages>>

\* an open unknown package stays listed unless the step commits an
\* assignment of that very unknown id
OpenUntilAssigned ==
    \A u \in get_unknown_packages :
        \/ \A list \in UnknownPackageList' : \E i \in DOMAIN list : list[i] = u
        \/ \E p \in Proc :
              /\ StepOf(p, "au_commit", "au_notify")
              /\ request[p].unknown_id = u.unknown_id

\* C13: LogUnknown(nameOnLabel, carrier) always succeeds and inserts exactly
\* one UnknownPackage with that label and carrier, the current timestamp and
\* a null assigned_resident_id; the returned id N is in ListOpenUnknowns()
\* until AssignUnknownToResident(N, r) succeeds.
C13_LogUnknownEffect ==
    [][(\A p \in Proc : LogUnknownEffect(p)) /\ OpenUntilAssigned]_vars

\* an unknown package was logged and then assigned to a resident
C13_Witness ==
    \E u \in UnknownPackages :
        /\ u.unknown_id > 1
        /\ u.assigned_resident_id # NULL
        /\ \E p \in Proc :
              /\ pc[p] = "done"
              /\ request[p].op = "assign_unknown_package"
              /\ request[p].unknown_id = u.unknown_id
              /\ response[p].status_code = 200

\* ---- C14
\* worker p has answered a request of the read route op
Answered(p, op) == pc[p] = "done" /\ request[p].op = op

\* the packages of residents of unit u
PackagesOfUnit(u) ==
    {k \in Packages : \E r \in ResidentOf(k) : r.unit_number = u}

\* C14: for every integer unit value u supplied as the unit filter (0 and
\* negative numbers included) SearchHistory(unit=u) returns only, and all of,
\* the packages whose resident's unit_number is u.
C14_UnitFilterExact ==
    \A p \in Proc :
       Answered(p, "search_history") /\ request[p].name = {} =>
          \A u \in request[p].unit :
             ListsExactly(response[p].packages, PackagesOfUnit(u))

\* ---- C15
\* the rows of a returned list
Rows(list) == {list[i] : i \in DOMAIN list}

\* C15: the two optional filters of SearchHistory compose with logical AND:
\* for every name query n and unit query u the result of SearchHistory(n, u)
\* is exactly the intersection of the results of SearchHistory(name=n) and
\* SearchHistory(unit=u).
C15_FiltersIntersect ==
    \A p \in Proc :
       Answered(p, "search_history") =>
          \A n \in request[p].name : \A u \in request[p].unit :
             /\ Rows(response[p].packages) =
                   search_history({n}, {}) \cap search_history({}, {u})
             /\ Len(response[p].packages) = Cardinality(Rows(response[p].packages))

\* a search with both filters returned some but not all of the packages
\* that the name filter alone selects
C15_Witness ==
    \E p \in Proc :
       /\ Answered(p, "search_history")
       /\ \E n \in request[p].name : \E u \in request[p].unit :
            /\ response[p].packages # <<>>
            /\ Rows(response[p].packages) # search_history({n}, {})
            /\ search_history({}, {u}) # JoinResidents(Packages)

\* ---- C16
\* C16: SearchHistory with no filters returns the full history: after any
\* sequence of operations every Package record (Pending or PickedUp, logged
\* directly or created by assignment) appears in the result exactly once,
\* joined with its resident's name and unit, in descending order of delivery
\* timestamp.
C16_FullHistory ==
    /\ HistoryPackageList({}, {}) # {}
    /\ \A list \in HistoryPackageList({}, {}) :
         /\ ListsExactly(list, Packages)
         /\ DescendingByDate(list)

\* the history holds a picked-up package and a pending package that was
\* created by assigning an unknown package
C16_Witness ==
    \E k, m \in Packages : \E u \in UnknownPackages :
        /\ k.status = "PickedUp"
        /\ m.package_id > 1 /\ m.status = "Pending"
        /\ u.assigned_resident_id = m.resident_id
        /\ m.delivery_date = u.delivery_date /\ m.carrier = u.carrier

\* ---- C17
\* str contains q as a substring, letters compared without regard to case
ContainsIgnoringCase(str, q) ==
    \E i \in 0..Len(str) :
       /\ i + Len(q) <= Len(str)
       /\ \A j \in 1..Len(q) : Lower(str[i + j]) = Lower(q[j])

\* C17: name search is a case-insensitive substring containment test: for
\* every query string q, whatever characters it contains, SearchResidents(q)
\* returns exactly the residents whose full name contains q as a
\* case-insensitive substring, ordered by full name ascending, and
\* SearchHistory(name=q) returns only packages whose resident's full name
\* contains q case-insensitively.
C17_NameSearchIsSubstring ==
    \A p \in Proc :
       /\ Answered(p, "search_residents") =>
             LET list == response[p].residents IN
             /\ Rows(list) =
                   {r \in Residents : ContainsIgnoringCase(r.full_name, request[p].query)}
             /\ Len(list) = Cardinality(Rows(list))
             /\ \A i, j \in DOMAIN list :
                   i < j => TextLeq(list[i].full_name, list[j].full_name)
       /\ Answered(p, "search_history") =>
             \A q \in request[p].name :
                \A i \in DOMAIN response[p].packages :
                   ContainsIgnoringCase(response[p].packages[i].full_name, q)

\* ---- C18
\* the answer of worker p to a login request is the one the accounts call for
LoginOutcome(p) ==
    Answered(p, "login") =>
       LET accounts == {a \in StaffLogin : a.staff_username = request[p].username}
           matching == {a \in accounts : a.staff_password = request[p].password}
           r        == response[p]
       IN  /\ r.success <=> matching # {}
           /\ r.success => r.username = {request[p].username}
           /\ accounts = {} => r.message = "Invalid username"
           /\ accounts # {} /\ matching = {} => r.message = "Invalid password"

\* C18: Authenticate staff succeeds (success, echoed username) exactly when a
\* StaffAccount with the given username exists and its stored password equals
\* the given password; otherwise it fails with 'Invalid username' when no
\* account has that username and with the distinct message 'Invalid password'
\* when the account exists but the password differs; it never modifies the
\* store.
C18_Authenticate ==
    [][\A p \in Proc :
          /\ LoginOutcome(p)'
          /\ StepOf(p, "login", "done") => store' = store]_vars

\* one login succeeded and another was refused for its password, which is
\* the password of a different account
C18_Witness ==
    \E p, q \in Proc :
       /\ Answered(p, "login") /\ response[p].success
       /\ Answered(q, "login") /\ response[q].message = "Invalid password"
       /\ \E a \in StaffLogin : a.staff_password = request[q].password

\* ---- C19
\* the assignment of worker p is not refused because the record exists already
\* resolved, its commit leaves the record assigned to its own resident, and
\* it reports success
AssignUnguarded(p) ==
    /\ (pc[p] = "au_select" /\ pc'[p] # pc[p]
          /\ \E u \in UnknownPackages : u.unknown_id = request[p].unknown_id)
         => pc'[p] = "au_update"
    /\ StepOf(p, "au_commit", "au_notify")
         => \A u \in UnknownPackages' :
               u.unknown_id = request[p].unknown_id
                 => u.assigned_resident_id = request[p].resident_id
    /\ StepOf(p, "au_notify", "done")
         => response'[p].status_code = 200 /\ response'[p].success

\* C19: concurrent AssignUnknownToResident calls against the same open unknown
\* id, with different existing residents, are not guarded against races:
\* under every interleaving both calls report success, the final
\* assigned_resident_id is that of the call whose write is applied last
\* (last-write-wins), and neither call detects that the record was already
\* resolved by the other.
C19_LastWriteWins ==
    [][/\ \A p \in Proc : AssignUnguarded(p)
       /\ UnknownPackages' # UnknownPackages
            => \E p \in Proc : StepOf(p, "au_commit", "au_notify")
                                 \/ StepOf(p, "lu_insert", "done")]_vars

\* two calls that both found unknown package 1 open have both reported
\* success, for different residents; the record names one of them
C19_Witness ==
    /\ \A p \in Proc :
          /\ pc[p] = "done" /\ request[p].op = "assign_unknown_package"
          /\ request[p].unknown_id = 1
          /\ response[p].status_code = 200
          /\ local[p].unknown_pkg.assigned_resident_id = NULL
    /\ request[1].resident_id # request[2].resident_id
    /\ \E u \in UnknownPackages :
          u.unknown_id = 1 /\ u.assigned_resident_id = request[1].resident_id

\* ---- C20
\* C20: referential integrity: in every state reachable from an initialised
\* database by any sequence or interleaving of API operations, every
\* Package's resident_id is the id of an existing Resident, and every
\* non-null UnknownPackage.assigned_resident_id is the id of an existing
\* Resident.
C20_ReferentialIntegrity ==
    LET ids == {r.id : r \in Residents} IN
    /\ \A k \in Packages : k.resident_id \in ids
    /\ \A u \in UnknownPackages :
          u.assigned_resident_id # NULL => u.assigned_resident_id \in ids

\* a request naming a resident that does not exist was refused, and an
\* assignment to an existing resident created a package
C20_Witness ==
    /\ \E p \in Proc :
          /\ pc[p] = "done"
          /\ request[p].op \in {"create_package", "assign_unknown_package"}
          /\ request[p].resident_id \notin {r.id : r \in Residents}
          /\ response[p].status_code = 404
    /\ \E k \in Packages : k.package_id > 1
    /\ \E u \in UnknownPackages : u.assigned_resident_id # NULL

\* ---- C21
\* C21: Package and UnknownPackage records are never deleted and a Package is
\* mutated only by the pickup operation: every package id and unknown id that
\* ever existed still exists after any sequence of lifecycle operations, and
\* each Package's resident_id, carrier and delivery timestamp equal the values
\* it was created with.
C21_RecordsKept ==
    [][/\ \A k \in Packages :
             \E m \in Packages' :
                /\ m.package_id = k.package_id
                /\ m.resident_id = k.resident_id
                /\ m.carrier = k.carrier
                /\ m.delivery_date = k.delivery_date
       /\ \A u \in UnknownPackages :
             \E v \in UnknownPackages' : v.unknown_id = u.unknown_id]_vars

\* a package logged in this run was picked up, and the seeded records are
\* still on file
C21_Witness ==
    /\ \E k \in Packages : k.package_id > 1 /\ k.status = "PickedUp"
    /\ SeedPackages \subseteq Packages
    /\ \E u \in UnknownPackages : u.unknown_id = 1

\* ---- C22
\* C22: Residents and StaffAccounts are immutable once created: every API
\* operation (login, list/search residents, log package, pickup, log unknown,
\* assign unknown, list pending, list open unknowns, search history) leaves
\* the Residents and StaffLogin tables unchanged.
C22_RosterImmutable ==
    [][Residents' = Residents /\ StaffLogin' = StaffLogin]_vars

\* a login and an assignment have both been answered with success
C22_Witness ==
    \E p, q \in Proc :
       /\ Answered(p, "login") /\ response[p].success
       /\ Answered(q, "assign_unknown_package") /\ response[q].status_code = 200
       /\ Packages # SeedPackages

\* ---- C23
\* C23: send_notification(toAddress) returns success/failure and never throws
\* out to the caller: for every failure of the SMTP exchange (connect,
\* STARTTLS, login or send) it returns False, and it returns True only when
\* the message was sent.
C23_SendNotificationTotal ==
    \A p \in Proc :
       Answered(p, "send_notification") =>
          /\ response[p] \in {[returned |-> TRUE], [returned |-> FALSE]}
          /\ local[p].failed \in {"SMTP", "starttls", "server_login", "send_message"}
                => response[p] = [returned |-> FALSE]
          /\ response[p] = [returned |-> TRUE] => local[p].accepted

\* one call returned True, another returned False because the connection
\* could not be made
C23_Witness ==
    \E p, q \in Proc :
       /\ Answered(p, "send_notification") /\ response[p] = [returned |-> TRUE]
       /\ Answered(q, "send_notification") /\ local[q].failed = "SMTP"
       /\ response[q] = [returned |-> FALSE]

\* ---- C24
\* deliveries shown by the unified dashboard view: all packages and the open
\* unknown packages
Deliveries(packages, unknowns) ==
    Cardinality(packages)
      + Cardinality({u \in unknowns : u.assigned_resident_id = NULL})

\* a LogPackage or LogUnknown call writes its record in this step
LogsDelivery ==
    \E p \in Proc : StepOf(p, "cp_insert", "cp_notify") \/ StepOf(p, "lu_insert", "done")

\* C24: conservation of deliveries: the number of Package records plus the
\* number of open UnknownPackage records equals the number of successful
\* LogPackage calls plus the number of successful LogUnknown calls; step by
\* step, the sum grows by one with every logged delivery and is left
\* unchanged by every other operation.
C24_Conservation ==
    [][Deliveries(Packages', UnknownPackages') =
          Deliveries(Packages, UnknownPackages) + (IF LogsDelivery THEN 1 ELSE 0)]_vars

\* ---- C25
\* the pickup of worker p touches the status of its own package only
PickupFrame(p) ==
    StepOf(p, "pickup", "done") =>
       /\ UNCHANGED <<Residents, StaffLogin, UnknownPackages>>
       /\ Cardinality(Packages') = Cardinality(Packages)
       /\ \A k \in Packages :
             IF k.package_id = request[p].package_id
               THEN [k EXCEPT !.status = "PickedUp"] \in Packages'
               ELSE k \in Packages'

\* C25: status changes are confined to the target of MarkPickedUp:
\* MarkPickedUp(id) changes only the status field of the package with that id
\* and leaves every other Package, every UnknownPackage and every Resident
\* unchanged, while LogPackage, LogUnknown and AssignUnknownToResident never
\* change any field of an already-existing Package; hence a Pending package
\* leaves the pending list only through MarkPickedUp on its own id.
C25_PickupFrame ==
    [][/\ \A p \in Proc : PickupFrame(p)
       /\ (\A p \in Proc : ~StepOf(p, "pickup", "done")) => Packages \subseteq Packages'
       /\ \A k \in get_pending_packages :
             (\A m \in get_pending_packages' : m.package_id # k.package_id)
               => \E p \in Proc : /\ StepOf(p, "pickup", "done")
                                    /\ request[p].package_id = k.package_id]_vars

\* a pickup was confirmed for one package while another is still pending
C25_Witness ==
    \E p \in Proc :
       /\ pc[p] = "done" /\ request[p].op = "pickup_package"
       /\ response[p].status_code = 200
       /\ \E k, m \in Packages :
            /\ k.package_id = request[p].package_id /\ k.status = "PickedUp"
            /\ m.package_id # k.package_id /\ m.status = "Pending"

\* ---- C26
\* the write of worker p's request is in the database file
WriteCommitted(p) ==
    /\ txn.owner # p
    /\ \E k \in Packages :
          /\ k.resident_id = request[p].resident_id
          /\ IF request[p].op = "create_package"
               THEN /\ k.package_id = local[p].package_id
                    /\ k.carrier = request[p].carrier
               ELSE /\ k.carrier = local[p].unknown_pkg.carrier
                    /\ k.delivery_date = local[p].unknown_pkg.delivery_date
                    /\ k.package_id > 1

\* worker p calls send_notification only as the last step of a LogPackage or
\* an assignment, once, after the write, for the resident of the request
NotifyOrdering(p) ==
    /\ (notified'[p] # notified[p] /\ pc[p] \notin {"idle", "done"})
         => /\ pc[p] \in {"cp_notify", "au_notify"}
            /\ notified[p] = <<>>
            /\ Len(notified'[p]) = 1
            /\ \E r \in Residents :
                  r.id = request[p].resident_id /\ notified'[p][1].to_email = r.email
            /\ WriteCommitted(p)
            /\ response'[p].status_code = 200
    /\ (pc'[p] = "done" /\ pc[p] # "done"
          /\ request[p].op \in {"create_package", "assign_unknown_package"})
         => Len(notified'[p]) = (IF response'[p].status_code = 200 THEN 1 ELSE 0)

\* C26: send_notification is invoked exactly once per successful LogPackage
\* and per successful AssignUnknownToResident, addressed to the email of the
\* resident the package was recorded for, and only after the corresponding
\* write has been committed; it is never invoked by a request that fails with
\* resident-not-found or unknown-package-not-found.
C26_NotifyOnceAfterCommit ==
    [][\A p \in Proc : NotifyOrdering(p)]_vars

\* an assignment was notified to its resident while a request of the other
\* worker was refused for its resident id
C26_Witness ==
    \E p, q \in Proc :
       /\ pc[p] = "done" /\ request[p].op = "assign_unknown_package"
       /\ response[p].status_code = 200 /\ Len(notified[p]) = 1
       /\ pc[q] = "done" /\ request[q].op = "create_package"
       /\ response[q].status_code = 404 /\ notified[q] = <<>>

\* ---- C27
\* C27: confirming a pickup sends an email notification to the package's
\* resident: whenever the confirm-pickup flow reports 'Pickup confirmed!
\* Notification sent to <resident email>' after a successful POST
\* /packages/{id}/pickup, a send_notification to that resident's address has
\* taken place as part of the pickup.
C27_PickupNotifies ==
    \A p \in Proc :
       (pc[p] = "done" /\ request[p].op = "pickup_package") =>
          \A report \in ConfirmPickupReport(p) :
             report[1] = "Pickup confirmed! Notification sent to" =>
                \E i \in DOMAIN notified[p] : notified[p][i].to_email = report[2]

\* ---- C28
\* the id worker p gets from its LogPackage or LogUnknown call was never
\* issued before and is the id of the row the call inserted
IssuesFreshId(p) ==
    /\ StepOf(p, "cp_insert", "cp_notify") =>
          LET id == local'[p].package_id IN
          /\ id > sqlite_sequence.Packages
          /\ id \notin {k.package_id : k \in Packages}
          /\ \E k \in Packages' \ Packages :
                /\ k.package_id = id
                /\ k.resident_id = request[p].resident_id
                /\ k.carrier = request[p].carrier
    /\ StepOf(p, "cp_notify", "done") => response'[p].package_id = local[p].package_id
    /\ StepOf(p, "lu_insert", "done") =>
          LET id == response'[p].unknown_id IN
          /\ id > sqlite_sequence.UnknownPackages
          /\ id \notin {u.unknown_id : u \in UnknownPackages}
          /\ \E u \in UnknownPackages' \ UnknownPackages :
                /\ u.unknown_id = id
                /\ u.name_on_label = request[p].name_on_label
                /\ u.carrier = request[p].carrier

\* no two rows of a table have the same id, and no id is above the counter
UniqueIds ==
    /\ \A k, m \in Packages : k.package_id = m.package_id => k = m
    /\ \A u, v \in UnknownPackages : u.unknown_id = v.unknown_id => u = v
    /\ \A k \in Packages : k.package_id <= sqlite_sequence.Packages
    /\ \A u \in UnknownPackages : u.unknown_id <= sqlite_sequence.UnknownPackages

\* C28: package ids and unknown ids are unique and never reused: the id
\* returned by each successful LogPackage or LogUnknown call identifies the
\* row that call inserted and differs from every id issued before it, also
\* when two such calls run concurrently.
C28_FreshIds ==
    [][UniqueIds /\ UniqueIds' /\ \A p \in Proc : IssuesFreshId(p)]_vars

\* two LogPackage calls served side by side returned different new ids
C28_Witness ==
    /\ \A p \in Proc :
          /\ pc[p] = "done" /\ request[p].op = "create_package"
          /\ response[p].status_code = 200
    /\ response[1].package_id # response[2].package_id
    /\ \A p \in Proc : \E k \in Packages : k.package_id = response[p].package_id

\* ---- C29
\* C29: database setup without fresh start is idempotent: schema creation is
\* create-if-absent and each seed function skips a table that already has
\* rows, so create_tables followed by seed_all on an already initialised
\* database leaves the contents of all four tables unchanged, including
\* packages logged or picked up since the first initialisation.
C29_SetupIdempotent ==
    [][\A p \in Proc :
          (pc[p] \in SetupSteps /\ pc'[p] # pc[p]) => store' = store]_vars

\* the setup script has run again on a database in which a package was
\* logged or picked up since the first initialisation
C29_Witness ==
    \E p \in Proc :
       /\ pc[p] = "done" /\ request[p].op = "initialize_database"
       /\ ~request[p].fresh_start
       /\ \E k \in Packages : k.package_id > 1 \/ k.status = "PickedUp"

\* ---- C30
\* every package references an existing resident and is listed by the
\* history and, when pending, by the pending list
EveryPackageListed ==
    \A k \in Packages :
       /\ ResidentOf(k) # {}
       /\ \E j \in search_history({}, {}) : j.package_id = k.package_id
       /\ k.status = "Pending" =>
             \E j \in get_pending_packages : j.package_id = k.package_id

\* C30: seeding preserves referential integrity from any starting state:
\* after seed_all on a database whose tables exist (including one where
\* seed_residents is skipped because Residents already holds other rows while
\* Packages is empty), every Package row references an existing Resident and
\* therefore appears in SearchHistory() and, if Pending, in
\* GetPendingPackages().
C30_SeedingKeepsIntegrity ==
    [][\A p \in Proc :
          StepOf(p, "seed_sample_unknown_packages", "done") => EveryPackageListed']_vars

====
